---- MODULE Spec2Model ----
(***************************************************************************)
(* Model of Basic-MultiProcessing-Producer-Consumer.py: a Supervisor       *)
(* (main), a Broker (the SyncManager server process that holds the         *)
(* concrete Queue), a ProducerProcess and a ConsumerProcess.               *)
(*                                                                         *)
(* Granularity: one step per statement of the source.  A call through the  *)
(* QueueProxy (put, get, qsize) is one step, taken at the moment the       *)
(* Broker serves it; a blocked call is a process that stays at its         *)
(* program counter.  The teardown done inside the library (the manager's   *)
(* __exit__, the interpreter's exit handlers) is one step each.            *)
(***************************************************************************)
EXTENDS Integers, Sequences, FiniteSets, TLC

\* ------------------------------------------------------------------ bounds

\* The Producer's loop is infinite; the model stops it after MaxCount puts.
MaxCount == 3
\* Signals the environment delivers to the Supervisor in one run.
MaxSignals == 2
\* Puts issued by a holder of the QueueProxy other than the Producer.
MaxInject == 1
\* The largest value such a holder puts.
MaxInjectVal == 3

\* --------------------------------------------------------------- constants

Signals == {"SIGINT", "SIGBREAK", "SIGABRT"}
\* main installs the handlers in this order (one signal.signal call each).
SigOrder == <<"SIGINT", "SIGBREAK", "SIGABRT">>

\* Default arguments of the two constructors: Daemon = True.
ProducerDaemon == TRUE
ConsumerDaemon == TRUE

\* Supervisor positions inside the try block of main.
InTry == {"enter_with", "make_queue", "construct", "start_consumer",
          "start_producer", "join", "waiting", "after_loop", "unwind"}
\* Positions of a worker whose process is running.
ProducerRunning == {"put", "qsize", "inc"}
ConsumerRunning == {"get", "qsize", "check"}

VARIABLES
    sup_pc,     \* Supervisor: position in main
    handlers,   \* Supervisor: signals whose handler is OSSignalHandler
    pending,    \* Supervisor: signal delivered and not yet handled
    sup_exc,    \* Supervisor: exception propagating or being handled
    sup_end,    \* Supervisor: how the process ended ("none" while running)
    withOpen,   \* Supervisor: the manager's context is entered
    nsig,       \* environment: signals delivered so far
    sigSteps,   \* Supervisor steps taken since the latest such delivery
    signalled,  \* a signal was delivered after all handlers were installed
    broker,     \* Broker process: "none", "alive", "dead"
    queue,      \* the concrete Queue held by the Broker (FIFO, head first)
    prod_pc,    \* Producer: "none", "new", "put", "qsize", "inc", "dead"
    Count,      \* Producer: local Count
    prod_end,   \* Producer: how the process ended
    cons_pc,    \* Consumer: "none", "new", "get", "qsize", "check", "dead"
    Item,       \* Consumer: local Item (-1 before the first get)
    PrevItem,   \* Consumer: local PrevItem
    cons_end,   \* Consumer: how the process ended
    putlog,     \* history: values accepted by put, in order
    getlog,     \* history: <<caller, value>> returned by get, in order
    injected,   \* harness: puts issued by the other caller
    psize,      \* Producer: the size qsize returned to its print (-1: none)
    csize,      \* Consumer: the size qsize returned to its print (-1: none)
    startFirst, \* the worker main starts first ("Consumer" in the source)
    ver_pc,     \* VersionRanges: position of PrintFunction ("idle": not run)
    VersionNumbers, \* VersionRanges: the argument of PrintFunction
    Num,        \* VersionRanges: local Num of PrintFunction
    printed     \* VersionRanges: the versions printed, in order

vars == <<sup_pc, handlers, pending, sup_exc, sup_end, withOpen, nsig,
          sigSteps, signalled, broker, queue, prod_pc, Count, prod_end,
          cons_pc, Item, PrevItem, cons_end, putlog, getlog, injected,
          psize, csize, startFirst, ver_pc, VersionNumbers, Num, printed>>

supVars  == <<sup_pc, handlers, pending, sup_exc, sup_end, withOpen, nsig,
              sigSteps, signalled>>
prodVars == <<prod_pc, Count, prod_end>>
consVars == <<cons_pc, Item, PrevItem, cons_end>>
logVars  == <<putlog, getlog, injected>>
sizeVars == <<psize, csize>>
verVars  == <<ver_pc, VersionNumbers, Num, printed>>
auxVars  == <<startFirst, verVars>>
pipelineVars == <<supVars, prodVars, consVars, logVars, sizeVars, broker,
                  queue, startFirst>>

\* ------------------------------------------------------------ the Queue

\* Faulty variant: a Queue created with maxsize 2.
QueueFullAtTwo(q) == Len(q) >= 2

\* QueueManager.Queue() has no maxsize: it is never full.
QueueFull(q) == FALSE

\* qsize reports the number of items held at the moment of the call.
QueueSize(q) == Len(q)

\* Faulty variant: put inserts at the head.
QueuePutFront(q, v) == <<v>> \o q

\* put appends at the tail.
QueuePut(q, v) == Append(q, v)

\* Faulty variant: get hands out the newest item (a stack).
QueueFrontNewest(q) == q[Len(q)]

\* get returns the oldest item ...
QueueFront(q) == Head(q)

\* Faulty variant: get loses the item behind the one it returns.
QueueRestSkip(q) == IF Len(q) >= 2 THEN Tail(Tail(q)) ELSE Tail(q)

\* Faulty variant: get leaves the item in the queue (a peek).
QueueRestKeep(q) == q

\* ... and removes it.
QueueRest(q) == Tail(q)

\* A proxy call reaches the Broker only while the server process lives;
\* otherwise the connection raises (EOFError / ConnectionError).
Reachable == broker = "alive"
Unreachable == broker = "dead"

\* ------------------------------------------------------------ exit codes

\* Exit code of a worker process by the way run() ended.  "raise SystemExit"
\* carries no code, and multiprocessing reports a SystemExit without a code
\* as exit code 0 (CPython 3.11; older releases reported 1).  An unhandled
\* exception gives 1; a process terminated by its parent reports -SIGTERM.
WorkerExitCode(end) ==
    CASE end = "OrderingViolation" -> 0
      [] end = "BrokerUnreachable" -> 1
      [] end = "Terminated"        -> -15
      [] OTHER                     -> -1

\* Exit code of the Supervisor: main returned, or sys.exit(0) left main
\* uncaught: 0.  An uncaught KeyboardInterrupt: 1.  Killed by a signal's
\* default action: 3.
SupervisorExitCode(end) ==
    CASE end = "Returned"          -> 0
      [] end = "SystemExit"        -> 0
      [] end = "KeyboardInterrupt" -> 1
      [] end = "Exception"         -> 1
      [] end = "Killed"            -> 3
      [] OTHER                     -> -1

\* -------------------------------------------------------------------- Init

\* The state of the pipeline's processes before main runs.
PipelineInit ==
    /\ sup_pc = "install"
    /\ handlers = {}
    /\ pending = "none"
    /\ sup_exc = "none"
    /\ sup_end = "none"
    /\ withOpen = FALSE
    /\ nsig = 0
    /\ sigSteps = 0
    /\ signalled = FALSE
    /\ broker = "none"
    /\ queue = <<>>
    /\ prod_pc = "none"
    /\ Count = 0
    /\ prod_end = "none"
    /\ cons_pc = "none"
    /\ Item = -1
    /\ PrevItem = -1
    /\ cons_end = "none"
    /\ putlog = <<>>
    /\ getlog = <<>>
    /\ injected = 0
    /\ psize = -1
    /\ csize = -1

\* VersionRanges.py is another program: it does not run here.
VersionIdle ==
    /\ ver_pc = "idle"
    /\ VersionNumbers = <<0, 0, 0, 0, 0, 0>>
    /\ Num = 0
    /\ printed = <<>>

\* main starts the Consumer first ( Consumer.start(); Producer.start() ).
Init ==
    /\ PipelineInit
    /\ startFirst = "Consumer"
    /\ VersionIdle

\* The program, and the program with lines 178 and 179 exchanged.
InitOrder ==
    /\ PipelineInit
    /\ startFirst \in {"Consumer", "Producer"}
    /\ VersionIdle

\* ------------------------------------------------------------- Producer

\* Faulty variant: put is accepted only once the Consumer has drained the
\* queue.
ProducerPutRendezvous ==
    /\ prod_pc = "put"
    /\ Reachable
    /\ queue = <<>>
    /\ Count < MaxCount
    /\ queue' = QueuePut(queue, Count)
    /\ putlog' = Append(putlog, Count)
    /\ prod_pc' = "qsize"
    /\ UNCHANGED <<Count, prod_end, broker, getlog, injected>>
    /\ UNCHANGED <<supVars, consVars>>
    /\ UNCHANGED <<sizeVars, auxVars>>

\* self.QueueProxy.put( Count, block = True )
ProducerPut ==
    /\ prod_pc = "put"
    /\ Reachable
    /\ ~QueueFull(queue)
    /\ Count < MaxCount
    /\ queue' = QueuePut(queue, Count)
    /\ putlog' = Append(putlog, Count)
    /\ prod_pc' = "qsize"
    /\ UNCHANGED <<Count, prod_end, broker, getlog, injected>>
    /\ UNCHANGED <<supVars, consVars>>
    /\ UNCHANGED <<sizeVars, auxVars>>

\* Faulty variant: asking for the size takes the oldest item off the queue.
ProducerQsizeDrain ==
    /\ prod_pc = "qsize"
    /\ Reachable
    /\ psize' = QueueSize(queue)
    /\ csize' = csize
    /\ prod_pc' = "inc"
    /\ queue' = IF queue = <<>> THEN queue ELSE QueueRest(queue)
    /\ UNCHANGED <<Count, prod_end, broker>>
    /\ UNCHANGED <<supVars, consVars, logVars>>
    /\ UNCHANGED auxVars

\* print( ... self.QueueProxy.qsize() ): the size is printed, nothing else
ProducerQsize ==
    /\ prod_pc = "qsize"
    /\ Reachable
    /\ psize' = QueueSize(queue)
    /\ csize' = csize
    /\ prod_pc' = "inc"
    /\ UNCHANGED <<Count, prod_end, broker, queue>>
    /\ UNCHANGED <<supVars, consVars, logVars>>
    /\ UNCHANGED auxVars

\* Faulty variant: the counter advances by two.
NextCountByTwo(c) == c + 2

\* Count += 1
NextCount(c) == c + 1

\* Count += 1; the printed size was a temporary of the print statement
ProducerInc ==
    /\ prod_pc = "inc"
    /\ Count' = NextCount(Count)
    /\ prod_pc' = "put"
    /\ psize' = -1
    /\ UNCHANGED <<prod_end, broker, queue, csize>>
    /\ UNCHANGED <<supVars, consVars, logVars>>
    /\ UNCHANGED auxVars

\* Faulty variant: the failure is swallowed and the loop goes on with the next
\* value.
ProducerFailSkip ==
    /\ prod_pc \in {"put", "qsize"}
    /\ Unreachable
    /\ prod_pc' = "inc"
    /\ UNCHANGED <<Count, prod_end, broker, queue>>
    /\ UNCHANGED <<supVars, consVars, logVars>>
    /\ UNCHANGED <<sizeVars, auxVars>>

\* put or qsize raises because the Broker is gone; run() has no handler, so
\* the exception ends the process.
ProducerFail ==
    /\ prod_pc \in {"put", "qsize"}
    /\ Unreachable
    /\ prod_pc' = "dead"
    /\ prod_end' = "BrokerUnreachable"
    /\ UNCHANGED <<Count, broker, queue>>
    /\ UNCHANGED <<supVars, consVars, logVars>>
    /\ UNCHANGED <<sizeVars, auxVars>>

\* ------------------------------------------------------------- Consumer

\* Faulty variant: get( block = False ) whose emptiness is swallowed: the call
\* returns at once, with no item when the queue is empty.
ConsumerGetNoBlock ==
    /\ cons_pc = "get"
    /\ Reachable
    /\ Item' = IF queue = <<>> THEN -1 ELSE Head(queue)
    /\ queue' = IF queue = <<>> THEN queue ELSE Tail(queue)
    /\ getlog' = IF queue = <<>> THEN getlog
                  ELSE Append(getlog, <<"Consumer", Head(queue)>>)
    /\ cons_pc' = "qsize"
    /\ UNCHANGED <<PrevItem, cons_end, broker, putlog, injected>>
    /\ UNCHANGED <<supVars, prodVars>>
    /\ UNCHANGED <<sizeVars, auxVars>>

\* Item = self.QueueProxy.get( block = True )
ConsumerGet ==
    /\ cons_pc = "get"
    /\ Reachable
    /\ queue # <<>>
    /\ Item' = QueueFront(queue)
    /\ queue' = QueueRest(queue)
    /\ getlog' = Append(getlog, <<"Consumer", QueueFront(queue)>>)
    /\ cons_pc' = "qsize"
    /\ UNCHANGED <<PrevItem, cons_end, broker, putlog, injected>>
    /\ UNCHANGED <<supVars, prodVars>>
    /\ UNCHANGED <<sizeVars, auxVars>>

\* print( ... self.QueueProxy.qsize() ): the size is printed, nothing else
ConsumerQsize ==
    /\ cons_pc = "qsize"
    /\ Reachable
    /\ csize' = QueueSize(queue)
    /\ psize' = psize
    /\ cons_pc' = "check"
    /\ UNCHANGED <<Item, PrevItem, cons_end, broker, queue>>
    /\ UNCHANGED <<supVars, prodVars, logVars>>
    /\ UNCHANGED auxVars

\* Faulty variant: the test only rejects items that do not increase.
NotConsecutiveLoose(item, prev) == (item - prev) < 1

\* The Consumer's test: ( Item - PrevItem ) != 1
NotConsecutive(item, prev) == (item - prev) # 1

\* Faulty variant: the cursor is moved before the test, so a rejected item
\* is remembered too.
ConsumerCheckAssignFirst ==
    /\ cons_pc = "check"
    /\ IF NotConsecutive(Item, PrevItem)
         THEN /\ cons_pc' = "dead"
              /\ cons_end' = "OrderingViolation"
         ELSE /\ cons_pc' = "get"
              /\ cons_end' = cons_end
    /\ PrevItem' = Item
    /\ csize' = -1
    /\ UNCHANGED <<Item, broker, queue, psize>>
    /\ UNCHANGED <<supVars, prodVars, logVars>>
    /\ UNCHANGED auxVars

\* if ( Item - PrevItem ) != 1: raise SystemExit, else PrevItem = Item
ConsumerCheck ==
    /\ cons_pc = "check"
    /\ IF NotConsecutive(Item, PrevItem)
         THEN /\ cons_pc' = "dead"
              /\ cons_end' = "OrderingViolation"
              /\ PrevItem' = PrevItem
         ELSE /\ cons_pc' = "get"
              /\ cons_end' = cons_end
              /\ PrevItem' = Item
    /\ csize' = -1
    /\ UNCHANGED <<Item, broker, queue, psize>>
    /\ UNCHANGED <<supVars, prodVars, logVars>>
    /\ UNCHANGED auxVars

\* Faulty variant: a lost Broker shows as an empty result: the call returns no item
\* and the loop goes on.
ConsumerFailEmpty ==
    /\ cons_pc \in {"get", "qsize"}
    /\ Unreachable
    /\ cons_pc' = "check"
    /\ Item' = -1
    /\ UNCHANGED <<PrevItem, cons_end, broker, queue>>
    /\ UNCHANGED <<supVars, prodVars, logVars>>
    /\ UNCHANGED <<sizeVars, auxVars>>

\* get or qsize raises because the Broker is gone.
ConsumerFail ==
    /\ cons_pc \in {"get", "qsize"}
    /\ Unreachable
    /\ cons_pc' = "dead"
    /\ cons_end' = "BrokerUnreachable"
    /\ UNCHANGED <<Item, PrevItem, broker, queue>>
    /\ UNCHANGED <<supVars, prodVars, logVars>>
    /\ UNCHANGED <<sizeVars, auxVars>>

\* ----------------------------------------------------------- Supervisor

\* Every Supervisor step counts towards the steps taken since the latest
\* delivery of a handled signal.
SupStep == sigSteps' = IF signalled THEN sigSteps + 1 ELSE sigSteps

\* signal.signal( SIGINT | SIGBREAK | SIGABRT, OSSignalHandler ), in order
Main_InstallHandler ==
    /\ sup_pc = "install"
    /\ pending = "none"
    /\ handlers' = handlers \cup {SigOrder[Cardinality(handlers) + 1]}
    /\ sup_pc' = IF Cardinality(handlers') = Len(SigOrder)
                   THEN "enter_with" ELSE "install"
    /\ SupStep
    /\ UNCHANGED <<pending, sup_exc, sup_end, withOpen, nsig, signalled>>
    /\ UNCHANGED <<broker, queue, prodVars, consVars, logVars>>
    /\ UNCHANGED <<sizeVars, auxVars>>

\* with mpm.SyncManager() as QueueManager: the server process is started
Main_StartBroker ==
    /\ sup_pc = "enter_with"
    /\ pending = "none"
    /\ broker' = "alive"
    /\ queue' = <<>>
    /\ withOpen' = TRUE
    /\ sup_pc' = "make_queue"
    /\ SupStep
    /\ UNCHANGED <<handlers, pending, sup_exc, sup_end, nsig, signalled>>
    /\ UNCHANGED <<prodVars, consVars, logVars>>
    /\ UNCHANGED <<sizeVars, auxVars>>

\* QueueProxy = QueueManager.Queue()
Main_MakeQueue ==
    /\ sup_pc = "make_queue"
    /\ pending = "none"
    /\ Reachable
    /\ queue' = <<>>
    /\ sup_pc' = "construct"
    /\ SupStep
    /\ UNCHANGED <<handlers, pending, sup_exc, sup_end, withOpen, nsig,
                   signalled>>
    /\ UNCHANGED <<broker, prodVars, consVars, logVars>>
    /\ UNCHANGED <<sizeVars, auxVars>>

\* Faulty variant: after the constructors main goes to the second of the two
\* start statements.
AfterConstructSecond(first) ==
    IF first = "Consumer" THEN "start_producer" ELSE "start_consumer"

\* The order of the two start statements: the statement main executes after
\* the constructors, after Consumer.start() and after Producer.start().
AfterConstruct(first) ==
    IF first = "Consumer" THEN "start_consumer" ELSE "start_producer"

AfterStartConsumer(first) ==
    IF first = "Consumer" THEN "start_producer" ELSE "join"

AfterStartProducer(first) ==
    IF first = "Consumer" THEN "join" ELSE "start_consumer"

\* Producer = ProducerProcess(...); Consumer = ConsumerProcess(...)
Main_Construct ==
    /\ sup_pc = "construct"
    /\ pending = "none"
    /\ prod_pc' = "new"
    /\ cons_pc' = "new"
    /\ sup_pc' = AfterConstruct(startFirst)
    /\ SupStep
    /\ UNCHANGED <<handlers, pending, sup_exc, sup_end, withOpen, nsig,
                   signalled>>
    /\ UNCHANGED <<broker, queue, Count, prod_end, Item, PrevItem, cons_end,
                   logVars>>
    /\ UNCHANGED <<sizeVars, auxVars>>

\* Consumer.start(); the new process begins run() with PrevItem = -1
Main_StartConsumer ==
    /\ sup_pc = "start_consumer"
    /\ pending = "none"
    /\ cons_pc' = "get"
    /\ PrevItem' = -1
    /\ sup_pc' = AfterStartConsumer(startFirst)
    /\ SupStep
    /\ UNCHANGED <<handlers, pending, sup_exc, sup_end, withOpen, nsig,
                   signalled>>
    /\ UNCHANGED <<broker, queue, prodVars, Item, cons_end, logVars>>
    /\ UNCHANGED <<sizeVars, auxVars>>

\* Producer.start(); the new process begins run() with Count = 0
Main_StartProducer ==
    /\ sup_pc = "start_producer"
    /\ pending = "none"
    /\ prod_pc' = "put"
    /\ Count' = 0
    /\ sup_pc' = AfterStartProducer(startFirst)
    /\ SupStep
    /\ UNCHANGED <<handlers, pending, sup_exc, sup_end, withOpen, nsig,
                   signalled>>
    /\ UNCHANGED <<broker, queue, prod_end, consVars, logVars>>
    /\ UNCHANGED <<sizeVars, auxVars>>

\* Faulty variant: the loop runs only while the Broker is alive.
LoopWhileBrokerAlive(b, p, c) == b = "alive"

\* Faulty variant: the loop runs only while both workers are running.
LoopWhileWorkersRun(b, p, c) == p # "dead" /\ c # "dead"

\* The condition of main's loop, "while True": it looks at nothing.
LoopCondition(b, p, c) == TRUE

\* while True: QueueManager.join( 2 ) -- the call is entered.  Were the
\* condition false, main would go on to print('Exiting') after the loop.
Main_Join ==
    /\ sup_pc = "join"
    /\ pending = "none"
    /\ sup_pc' = IF LoopCondition(broker, prod_pc, cons_pc)
                   THEN "waiting" ELSE "after_loop"
    /\ SupStep
    /\ UNCHANGED <<handlers, pending, sup_exc, sup_end, withOpen, nsig,
                   signalled>>
    /\ UNCHANGED <<broker, queue, prodVars, consVars, logVars>>
    /\ UNCHANGED <<sizeVars, auxVars>>

\* Faulty variant: join() without a timeout returns only when the Broker has ended.
JoinReturnsAtEnd(b) == b # "alive"

\* join( 2 ) is a wait with a timeout: it returns whether or not the Broker
\* has ended.
JoinReturns(b) == TRUE

\* join( 2 ) returns: the timeout elapsed or the Broker has ended.  A signal
\* that arrived during the wait is handled only now.
Main_JoinReturn ==
    /\ sup_pc = "waiting"
    /\ JoinReturns(broker)
    /\ sup_pc' = "join"
    /\ SupStep
    /\ UNCHANGED <<handlers, pending, sup_exc, sup_end, withOpen, nsig,
                   signalled>>
    /\ UNCHANGED <<broker, queue, prodVars, consVars, logVars>>
    /\ UNCHANGED <<sizeVars, auxVars>>

\* A statement of the try block raises on its own: the Broker or a worker
\* process cannot be started, or the proxy call finds no Broker.
Main_Raise ==
    /\ \/ sup_pc \in {"enter_with", "start_consumer", "start_producer"}
       \/ sup_pc = "make_queue" /\ Unreachable
    /\ pending = "none"
    /\ sup_exc' = "Exception"
    /\ sup_pc' = "unwind"
    /\ SupStep
    /\ UNCHANGED <<handlers, pending, sup_end, withOpen, nsig, signalled>>
    /\ UNCHANGED <<broker, queue, prodVars, consVars, logVars>>
    /\ UNCHANGED <<sizeVars, auxVars>>

\* Faulty variant: leaving the with block ends the workers before it shuts
\* the Broker down.
Main_UnwindWorkersFirst ==
    /\ sup_pc \in {"unwind", "after_loop"}
    /\ broker' = IF withOpen THEN "dead" ELSE broker
    /\ queue' = IF withOpen THEN <<>> ELSE queue
    /\ withOpen' = FALSE
    /\ sup_pc' = "except"
    /\ prod_pc' = IF prod_pc \in ProducerRunning THEN "dead" ELSE prod_pc
    /\ cons_pc' = IF cons_pc \in ConsumerRunning THEN "dead" ELSE cons_pc
    /\ prod_end' = IF prod_pc' # prod_pc THEN "Terminated" ELSE prod_end
    /\ cons_end' = IF cons_pc' # cons_pc THEN "Terminated" ELSE cons_end
    /\ SupStep
    /\ UNCHANGED <<handlers, pending, sup_exc, sup_end, nsig, signalled>>
    /\ UNCHANGED <<Count, Item, PrevItem, logVars>>
    /\ UNCHANGED <<sizeVars, auxVars>>

\* Control leaves the with block, by an exception or after print('Exiting'):
\* SyncManager.__exit__ shuts the Broker down (and with it the Queue).  Then
\* it reaches the end of the try statement.
Main_Unwind ==
    /\ sup_pc \in {"unwind", "after_loop"}
    /\ broker' = IF withOpen THEN "dead" ELSE broker
    /\ queue' = IF withOpen THEN <<>> ELSE queue
    /\ withOpen' = FALSE
    /\ sup_pc' = "except"
    /\ SupStep
    /\ UNCHANGED <<handlers, pending, sup_exc, sup_end, nsig, signalled>>
    /\ UNCHANGED <<prodVars, consVars, logVars>>
    /\ UNCHANGED <<sizeVars, auxVars>>

\* Faulty variant: only SystemExit is caught; any other exception leaves
\* main and ends the process.
Main_ExceptSystemExitOnly ==
    /\ sup_pc = "except"
    /\ pending = "none"
    /\ sup_exc' = "none"
    /\ sup_end' = IF sup_exc \in {"none", "SystemExit"} THEN "Returned"
                                                       ELSE sup_exc
    /\ sup_pc' = "atexit"
    /\ SupStep
    /\ UNCHANGED <<handlers, pending, withOpen, nsig, signalled>>
    /\ UNCHANGED <<broker, queue, prodVars, consVars, logVars>>
    /\ UNCHANGED <<sizeVars, auxVars>>

\* except SystemExit / InterruptedError / BaseException: print (nothing to
\* catch after a normal end of the try block); main returns
Main_Except ==
    /\ sup_pc = "except"
    /\ pending = "none"
    /\ sup_exc' = "none"
    /\ sup_end' = "Returned"
    /\ sup_pc' = "atexit"
    /\ SupStep
    /\ UNCHANGED <<handlers, pending, withOpen, nsig, signalled>>
    /\ UNCHANGED <<broker, queue, prodVars, consVars, logVars>>
    /\ UNCHANGED <<sizeVars, auxVars>>

\* Faulty variant: the children are not daemonic and nothing ends them.
TerminateAtExitNone(pc, running, daemon) == pc

\* What interpreter exit does to a child process: a running daemonic child
\* is terminated.
TerminateAtExit(pc, running, daemon) ==
    IF daemon /\ pc \in running THEN "dead" ELSE pc

\* The Supervisor process exits: multiprocessing's exit handler terminates
\* the daemonic children, waits for the others, and runs the manager's
\* finalizer if the Broker is still up.
ProcessExit ==
    /\ sup_pc = "atexit"
    /\ ProducerDaemon \/ prod_pc \notin ProducerRunning
    /\ ConsumerDaemon \/ cons_pc \notin ConsumerRunning
    /\ prod_pc' = TerminateAtExit(prod_pc, ProducerRunning, ProducerDaemon)
    /\ cons_pc' = TerminateAtExit(cons_pc, ConsumerRunning, ConsumerDaemon)
    /\ prod_end' = IF prod_pc' # prod_pc THEN "Terminated" ELSE prod_end
    /\ cons_end' = IF cons_pc' # cons_pc THEN "Terminated" ELSE cons_end
    /\ broker' = IF broker = "alive" THEN "dead" ELSE broker
    /\ queue' = IF broker = "alive" THEN <<>> ELSE queue
    /\ sup_pc' = "exited"
    /\ SupStep
    /\ UNCHANGED <<handlers, pending, sup_exc, sup_end, withOpen, nsig,
                   signalled>>
    /\ UNCHANGED <<Count, Item, PrevItem, logVars>>
    /\ UNCHANGED <<sizeVars, auxVars>>

\* ---------------------------------------------------------------- signals

\* The environment delivers signal s to the Supervisor.  With a Python-level
\* handler in force (OSSignalHandler, or SIGINT's default handler) the
\* signal is noted and handled at the next statement; otherwise the default
\* action ends the process at once.
SignalDeliver(s) ==
    /\ sup_pc # "exited"
    /\ pending = "none"
    /\ nsig < MaxSignals
    /\ nsig' = nsig + 1
    /\ IF s \in handlers \/ s = "SIGINT"
         THEN /\ pending' = s
              /\ signalled' = (signalled \/ handlers = Signals)
              /\ sigSteps' = IF handlers = Signals THEN 0 ELSE sigSteps
              /\ UNCHANGED <<sup_pc, sup_end>>
         ELSE /\ sup_pc' = "exited"
              /\ sup_end' = "Killed"
              /\ UNCHANGED <<pending, signalled, sigSteps>>
    /\ UNCHANGED <<handlers, sup_exc, withOpen>>
    /\ UNCHANGED <<broker, queue, prodVars, consVars, logVars>>
    /\ UNCHANGED <<sizeVars, auxVars>>

\* Faulty variant: without the finally clause a failure of the print would
\* leave the handler as that exception, and a print that works would let
\* the handler return.
HandlerOutcomeNoFinally(logFails) ==
    IF logFails THEN "Exception" ELSE "SystemExit"

\* What leaves the handler: whether the print of the signal's name raised
\* (then one of the except clauses ran) or not, "finally: sys.exit(0)" runs
\* last and its SystemExit, with code 0, is what propagates.
HandlerOutcome(logFails) == "SystemExit"

\* OSSignalHandler( Signal, Frame ): print the signal's name; finally
\* sys.exit(0).  The SystemExit is raised at the interrupted statement:
\* inside the try block it starts unwinding, elsewhere nothing catches it
\* and it ends the process.
OSSignalHandler ==
    /\ pending \in handlers
    /\ sup_pc \notin {"waiting", "atexit", "exited"}
    /\ pending' = "none"
    /\ \E logFails \in BOOLEAN : sup_exc' = HandlerOutcome(logFails)
    /\ IF sup_pc \in InTry
         THEN /\ sup_pc' = "unwind"
              /\ sup_end' = sup_end
         ELSE /\ sup_pc' = "atexit"
              /\ sup_end' = sup_exc'
    /\ SupStep
    /\ UNCHANGED <<handlers, withOpen, nsig, signalled>>
    /\ UNCHANGED <<broker, queue, prodVars, consVars, logVars>>
    /\ UNCHANGED <<sizeVars, auxVars>>

\* SIGINT before its handler is installed: Python's default handler raises
\* KeyboardInterrupt.
DefaultIntHandler ==
    /\ pending # "none"
    /\ pending \notin handlers
    /\ sup_pc \notin {"waiting", "atexit", "exited"}
    /\ pending' = "none"
    /\ sup_exc' = "KeyboardInterrupt"
    /\ IF sup_pc \in InTry
         THEN /\ sup_pc' = "unwind"
              /\ sup_end' = sup_end
         ELSE /\ sup_pc' = "atexit"
              /\ sup_end' = "KeyboardInterrupt"
    /\ SupStep
    /\ UNCHANGED <<handlers, withOpen, nsig, signalled>>
    /\ UNCHANGED <<broker, queue, prodVars, consVars, logVars>>
    /\ UNCHANGED <<sizeVars, auxVars>>

\* ----------------------------------------------------------------- Broker

\* The server process ends on its own (crash, kill): the Queue is gone.
BrokerCrash ==
    /\ broker = "alive"
    /\ broker' = "dead"
    /\ queue' = <<>>
    /\ UNCHANGED <<supVars, prodVars, consVars, logVars>>
    /\ UNCHANGED <<sizeVars, auxVars>>

\* ---------------------------------------------------------------- harness

\* Another holder of the QueueProxy puts value v.
InjectPut(v) ==
    /\ Reachable
    /\ prod_pc # "none"
    /\ ~QueueFull(queue)
    /\ injected < MaxInject
    /\ injected' = injected + 1
    /\ queue' = QueuePut(queue, v)
    /\ putlog' = Append(putlog, v)
    /\ UNCHANGED <<broker, getlog>>
    /\ UNCHANGED <<supVars, prodVars, consVars>>
    /\ UNCHANGED <<sizeVars, auxVars>>

\* Another holder of the QueueProxy gets an item.
OtherGet ==
    /\ Reachable
    /\ queue # <<>>
    /\ getlog' = Append(getlog, <<"Other", QueueFront(queue)>>)
    /\ queue' = QueueRest(queue)
    /\ UNCHANGED <<broker, putlog, injected>>
    /\ UNCHANGED <<supVars, prodVars, consVars>>
    /\ UNCHANGED <<sizeVars, auxVars>>

\* One worker's connection to the Broker breaks while the Broker lives on:
\* its proxy call raises, and run() has no handler.
ProducerChannelLoss ==
    /\ prod_pc \in {"put", "qsize"}
    /\ Reachable
    /\ prod_pc' = "dead"
    /\ prod_end' = "BrokerUnreachable"
    /\ UNCHANGED <<Count, broker, queue>>
    /\ UNCHANGED <<supVars, consVars, logVars>>
    /\ UNCHANGED <<sizeVars, auxVars>>

ConsumerChannelLoss ==
    /\ cons_pc \in {"get", "qsize"}
    /\ Reachable
    /\ cons_pc' = "dead"
    /\ cons_end' = "BrokerUnreachable"
    /\ UNCHANGED <<Item, PrevItem, broker, queue>>
    /\ UNCHANGED <<supVars, prodVars, logVars>>
    /\ UNCHANGED <<sizeVars, auxVars>>

\* ----------------------------------------------------- VersionRanges.py

\* Bounds of the inputs tried, and of the number of lines printed.
MaxSpan == 4
MaxPrinted == 520

\* The masks of lines 96-98: 0xFF0000, 0x00FF00, 0x0000FF.
MajorMask == 16711680
MinorMask == 65280
IncMask == 255

\* Python's &, |, << and >> on non-negative integers of any size.
RECURSIVE BitAnd(_, _)
BitAnd(a, b) ==
    IF a = 0 \/ b = 0 THEN 0
    ELSE ((a % 2) * (b % 2)) + 2 * BitAnd(a \div 2, b \div 2)

RECURSIVE BitOr(_, _)
BitOr(a, b) ==
    IF a = 0 THEN b
    ELSE IF b = 0 THEN a
    ELSE (IF a % 2 = 1 \/ b % 2 = 1 THEN 1 ELSE 0)
             + 2 * BitOr(a \div 2, b \div 2)

ShiftLeft(n, k) == n * (2 ^ k)
ShiftRight(n, k) == n \div (2 ^ k)

\* FirstNum = (FirstMajorVer << 16) | (FirstMinorVer << 8) | FirstIncVer
FirstNum(v) == BitOr(BitOr(ShiftLeft(v[1], 16), ShiftLeft(v[2], 8)), v[3])

\* SecondNum, computed the same way from the second version (the loop does
\* not read it).
SecondNum(v) == BitOr(BitOr(ShiftLeft(v[4], 16), ShiftLeft(v[5], 8)), v[6])

\* Faulty variant: the major component is shifted out without its mask.
MajorVerNoMask(n) == ShiftRight(n, 16)

\* MajorVer = ( Num & 0xFF0000 ) >> 16
MajorVer(n) == ShiftRight(BitAnd(n, MajorMask), 16)

\* Faulty variant: the minor component is shifted out without its mask.
MinorVerNoMask(n) == ShiftRight(n, 8)

\* MinorVer = ( Num & 0x00FF00 ) >> 8
MinorVer(n) == ShiftRight(BitAnd(n, MinorMask), 8)

\* IncVer = ( Num & 0x0000FF ) >> 0
IncVer(n) == ShiftRight(BitAnd(n, IncMask), 0)

\* The loop's exit test: all three components equal those of the second
\* version.
IsSecondVersion(n, v) ==
    /\ MajorVer(n) = v[4]
    /\ MinorVer(n) = v[5]
    /\ IncVer(n) = v[6]

\* PrintFunction is called: the six components are read and Num = FirstNum.
PrintFunction_Enter ==
    /\ ver_pc = "call"
    /\ Num' = FirstNum(VersionNumbers)
    /\ ver_pc' = "loop"
    /\ UNCHANGED <<VersionNumbers, printed>>
    /\ UNCHANGED pipelineVars

\* One pass of "while True": unpack Num, print the version (the three
\* numbers in decimal, joined by dots), then either print "Done" and break,
\* or Num += 1.
PrintFunction_Loop ==
    /\ ver_pc = "loop"
    /\ Len(printed) < MaxPrinted
    /\ printed' = Append(printed, <<MajorVer(Num), MinorVer(Num), IncVer(Num)>>)
    /\ IF IsSecondVersion(Num, VersionNumbers)
         THEN /\ ver_pc' = "done"
              /\ Num' = Num
         ELSE /\ ver_pc' = "loop"
              /\ Num' = Num + 1
    /\ UNCHANGED VersionNumbers
    /\ UNCHANGED pipelineVars

\* The version with packed value n (modulo 2^24), and the packed value of a
\* version, by arithmetic.
VersionOf(n) == <<(n \div 65536) % 256, (n \div 256) % 256, n % 256>>
PackedValue(t) == (t[1] * 65536) + (t[2] * 256) + t[3]

\* The ranges tried: from every first version with components 0, 1 or 255,
\* to the versions up to MaxSpan after it and to the one just before it;
\* the first range of main, "1.0.0 to 1.2.5", as ProcessData parses it; and
\* ranges whose second version has a component that int() accepts and that
\* is no byte.
VerBytes == {0, 1, 255}
VerFirsts == {<<a, b, c>> : a \in VerBytes, b \in VerBytes, c \in VerBytes}
VerWide == {<<0, 0, 256>>, <<0, 256, 0>>, <<256, 0, 0>>, <<1, 2, 300>>}
VerInputs ==
    {f \o VersionOf(PackedValue(f) + d) : f \in VerFirsts, d \in 0..MaxSpan}
    \cup {f \o VersionOf(PackedValue(f) - 1) :
             f \in {g \in VerFirsts : PackedValue(g) >= 1}}
    \cup {<<1, 0, 0, 1, 2, 5>>}
    \cup {f \o w : f \in {<<0, 0, 0>>, <<1, 0, 0>>, <<255, 255, 255>>},
                    w \in VerWide}

\* ------------------------------------------------------------------ specs

\* main up to and including its wait loop.
Startup ==
    \/ Main_InstallHandler
    \/ Main_StartBroker
    \/ Main_MakeQueue
    \/ Main_Construct
    \/ Main_StartConsumer
    \/ Main_StartProducer
    \/ Main_Join
    \/ Main_JoinReturn

Supervisor ==
    \/ Startup
    \/ Main_Raise
    \/ Main_Unwind
    \/ Main_Except
    \/ ProcessExit
    \/ OSSignalHandler
    \/ DefaultIntHandler

Producer == ProducerPut \/ ProducerQsize \/ ProducerInc \/ ProducerFail

Consumer == ConsumerGet \/ ConsumerQsize \/ ConsumerCheck \/ ConsumerFail

Environment == BrokerCrash \/ \E s \in Signals : SignalDeliver(s)

Next == Supervisor \/ Producer \/ Consumer \/ Environment

\* The program as written: one Producer, one Consumer.
Spec == Init /\ [][Next]_vars

Harness == OtherGet \/ \E v \in 0..MaxInjectVal : InjectPut(v)

\* The pipeline under test: no signal is sent and main stays in its wait
\* loop, while a second holder of the QueueProxy puts and gets.
HarnessNext == Startup \/ Producer \/ Consumer \/ BrokerCrash \/ Harness

SpecHarness == Init /\ [][HarnessNext]_vars

ChannelLoss == ProducerChannelLoss \/ ConsumerChannelLoss

\* The pipeline under test, where in addition one worker alone can lose its
\* connection to the Broker.
SpecFailure == Init /\ [][HarnessNext \/ ChannelLoss]_vars

\* VersionRanges.py: PrintFunction is called on one range.
InitVer ==
    /\ PipelineInit
    /\ startFirst = "Consumer"
    /\ ver_pc = "call"
    /\ VersionNumbers \in VerInputs
    /\ Num = 0
    /\ printed = <<>>

NextVer == PrintFunction_Enter \/ PrintFunction_Loop

SpecVer == InitVer /\ [][NextVer]_vars

\* PrintFunction runs on: the interpreter executes the next statement.
SpecVerFair == SpecVer /\ WF_vars(NextVer)

\* The program where the Broker does not end on its own: it ends only by
\* what the Supervisor does.
ShutdownNext ==
    Supervisor \/ Producer \/ Consumer \/ \E s \in Signals : SignalDeliver(s)

SpecShutdown == Init /\ [][ShutdownNext]_vars

\* The program with the two start statements in either order.
SpecOrder == InitOrder /\ [][Next]_vars

\* Faulty variant: the Consumer process may be left without the processor
\* for ever.
FairnessWithoutConsumer ==
    /\ WF_vars(Supervisor)
    /\ WF_vars(Producer)

\* The program under the scheduling of the operating system: a process that
\* can take a step eventually takes one.
Fairness ==
    /\ WF_vars(Supervisor)
    /\ WF_vars(Producer)
    /\ WF_vars(Consumer)

SpecFair == Spec /\ Fairness

\* ================================================================= claims

\* The values returned by get, in return order, whoever the caller.
GetVals == [i \in 1..Len(getlog) |-> getlog[i][2]]

\* The values the Consumer's get calls returned, in return order.
OnlyConsumer(e) == e[1] = "Consumer"
ConsumerLog == SelectSeq(getlog, OnlyConsumer)
ConsumerVals == [i \in 1..Len(ConsumerLog) |-> ConsumerLog[i][2]]

IsPrefix(s, t) ==
    /\ Len(s) <= Len(t)
    /\ \A i \in 1..Len(s) : s[i] = t[i]

Occurrences(v, s) == Cardinality({i \in 1..Len(s) : s[i] = v})

\* A step in which some get returned.
GetReturned == getlog' # getlog

\* C1: Order preservation.  In every interleaving of the Producer's puts and
\* the Consumer's gets, the values get has returned, in return order, are a
\* prefix of the values put, in call order; and every get that returns
\* removes and returns the oldest item of the queue.
C1_OrderPreservation ==
    /\ [](IsPrefix(GetVals, putlog))
    /\ [][GetReturned =>
            /\ queue # <<>>
            /\ getlog' = Append(getlog, <<"Consumer", Head(queue)>>)
            /\ queue' = Tail(queue)]_vars

\* C1 witness: two gets have returned while a later item is still queued.
C1_Witness ==
    /\ Reachable
    /\ Len(getlog) >= 2
    /\ queue # <<>>

\* C2: No loss, no duplication.  The gets that returned never outnumber the
\* puts; while the Broker lives, every value put is either the value of
\* exactly one get (of exactly one caller) or still in the queue, in put
\* order; and once as many gets as puts have returned, the values returned
\* are the values put, each as often.
C2_NoLossNoDuplication ==
    /\ Len(getlog) <= Len(putlog)
    /\ Reachable => putlog = GetVals \o queue
    /\ Len(getlog) = Len(putlog) =>
         \A v \in 0..MaxInjectVal :
            Occurrences(v, GetVals) = Occurrences(v, putlog)

\* C2 witness: two callers have both taken items, and every item put has
\* been returned.
C2_Witness ==
    /\ Len(putlog) >= 3
    /\ Len(getlog) = Len(putlog)
    /\ \E i, j \in 1..Len(getlog) :
          getlog[i][1] = "Consumer" /\ getlog[j][1] = "Other"

\* C3: Gap detection.  Whatever sequence get delivers to the Consumer, the
\* items it has accepted are 0, 1, ..., PrevItem; at most one delivered item
\* is not yet accepted; the Consumer is back at get only with every
\* delivered item accepted; it is in the OrderingViolation state only with
\* the last delivered item not PrevItem + 1; and from that state it issues
\* no further get.
C3_GapDetection ==
    /\ [](cons_pc # "none" =>
            /\ Len(ConsumerVals) \in {PrevItem + 1, PrevItem + 2}
            /\ \A i \in 1..(PrevItem + 1) : ConsumerVals[i] = i - 1
            /\ cons_pc = "get" => Len(ConsumerVals) = PrevItem + 1
            /\ cons_end = "OrderingViolation" =>
                 /\ cons_pc = "dead"
                 /\ Len(ConsumerVals) = PrevItem + 2
                 /\ ConsumerVals[PrevItem + 2] # PrevItem + 1)
    /\ [][cons_end = "OrderingViolation" =>
            /\ cons_end' = "OrderingViolation"
            /\ cons_pc' = "dead"
            /\ ConsumerVals' = ConsumerVals
            /\ PrevItem' = PrevItem]_vars

\* C3 witness: the Consumer received 0, 1, 3 and stopped on the 3.
C3_Witness ==
    /\ cons_end = "OrderingViolation"
    /\ ConsumerVals = <<0, 1, 3>>
    /\ PrevItem = 1

\* C4: Blocking on empty.  A get issued on an empty queue does not return:
\* the Consumer stays at get (or is ended) with Item and PrevItem unchanged,
\* and no get returns.  A get pending on a queue that holds an item
\* eventually returns, unless the Broker ends.
C4_BlockingOnEmpty ==
    /\ [][(cons_pc = "get" /\ queue = <<>>) =>
            /\ cons_pc' \in {"get", "dead"}
            /\ Item' = Item
            /\ PrevItem' = PrevItem
            /\ getlog' = getlog]_vars
    /\ \A n \in 0..MaxCount :
          (cons_pc = "get" /\ queue # <<>> /\ Len(getlog) = n)
             ~> (Len(getlog) > n \/ ~Reachable)

\* C4 witness: the Consumer has taken every item put so far and waits at
\* get on the empty queue of a live Broker.
C4_Witness ==
    /\ cons_pc = "get"
    /\ Reachable
    /\ queue = <<>>
    /\ Len(getlog) >= 1

\* C5: Unbounded growth.  While the Broker lives the Producer's put is
\* enabled whatever the length of the queue (up to the model's MaxCount),
\* every put lengthens the queue by one, and as long as no get has returned
\* the queue is as long as the number of puts.
C5_UnboundedGrowth ==
    /\ []((prod_pc = "put" /\ Reachable /\ Count < MaxCount)
            => ENABLED ProducerPut)
    /\ []((Reachable /\ getlog = <<>>) => Len(queue) = Len(putlog))
    /\ [][putlog' # putlog => Len(queue') = Len(queue) + 1]_vars

\* C5 witness: MaxCount puts and no get: the queue holds all of them.
C5_Witness ==
    /\ Reachable
    /\ getlog = <<>>
    /\ Len(putlog) = MaxCount
    /\ Len(queue) = MaxCount

\* C6: Signal-driven shutdown.  From the first statement of the try block on
\* all three signals have the one handler OSSignalHandler; a signal delivered
\* then, in any state of the workers and the queue, makes the Supervisor
\* exit with status 0, after at most five Supervisor steps counted from the
\* latest delivery (the return of the pending wait, the handler, the
\* unwinding of the with block, the except clause, the process exit).
C6_SignalShutdown ==
    /\ [](sup_pc \in InTry => handlers = Signals)
    /\ [](signalled => sigSteps <= 5)
    /\ []((signalled /\ sup_pc = "exited") =>
            SupervisorExitCode(sup_end) = 0)
    /\ signalled ~> (sup_pc = "exited" /\ SupervisorExitCode(sup_end) = 0)

\* C6 witness: a signal arrived during the wait with items in the queue, and
\* the Supervisor has exited with status 0 after five steps.
C6_Witness ==
    /\ signalled
    /\ sup_pc = "exited"
    /\ sup_end = "Returned"
    /\ sigSteps = 5
    /\ putlog # <<>>

\* C7: an ordering violation ends the Consumer with a non-zero exit status,
\* unlike the status 0 of the Supervisor's signal-driven exit.
C7_ViolationExitsNonZero ==
    cons_end = "OrderingViolation" =>
        /\ WorkerExitCode(cons_end) # 0
        /\ WorkerExitCode(cons_end) # SupervisorExitCode("Returned")

\* C8: Teardown completeness.  Once the Supervisor has exited, the Broker is
\* not alive and neither worker is running, in every state; and from then on
\* no put is accepted and no get returns.
C8_TeardownComplete ==
    /\ [](sup_pc = "exited" =>
            /\ broker # "alive"
            /\ prod_pc \notin ProducerRunning
            /\ cons_pc \notin ConsumerRunning)
    /\ [][sup_pc = "exited" =>
            (putlog' = putlog /\ getlog' = getlog)]_vars

\* C8 witness: the Supervisor has exited after the pipeline ran; its exit
\* terminated both workers.
C8_Witness ==
    /\ sup_pc = "exited"
    /\ broker = "dead"
    /\ prod_end = "Terminated"
    /\ cons_end = "Terminated"
    /\ getlog # <<>>

\* C9: Broker loss is never an empty result.  A get, put or qsize that is
\* pending or issued with the Broker gone ends its worker (the failure is
\* BrokerUnreachable, unless the Supervisor's exit terminates the worker
\* first): no item and no empty value is returned, Item, PrevItem and Count
\* keep their values, no get returns and no put is accepted; and no worker
\* stays at such a call forever.
C9_BrokerLoss ==
    /\ [][(Unreachable /\ cons_pc \in {"get", "qsize"}
              /\ cons_pc' # cons_pc) =>
            /\ cons_pc' = "dead"
            /\ cons_end' \in {"BrokerUnreachable", "Terminated"}
            /\ Item' = Item
            /\ PrevItem' = PrevItem]_vars
    /\ [][(Unreachable /\ prod_pc \in {"put", "qsize"}
              /\ prod_pc' # prod_pc) =>
            /\ prod_pc' = "dead"
            /\ prod_end' \in {"BrokerUnreachable", "Terminated"}]_vars
    /\ [][Unreachable => (getlog' = getlog /\ putlog' = putlog)]_vars
    /\ (Unreachable /\ cons_pc \in {"get", "qsize"}) ~> (cons_pc = "dead")
    /\ (Unreachable /\ prod_pc \in {"put", "qsize"}) ~> (prod_pc = "dead")

\* C9 witness: the Broker ended while the Consumer waited at get on the
\* empty queue, and the Consumer ended with BrokerUnreachable.
C9_Witness ==
    /\ cons_end = "BrokerUnreachable"
    /\ cons_pc = "dead"
    /\ Len(getlog) >= 1
    /\ Len(getlog) = Len(putlog)
    /\ PrevItem = Len(getlog) - 1

\* C10: BrokerUnreachable is fatal, with no retry.  The step in which a
\* worker ends with BrokerUnreachable leaves Count (or PrevItem) as it was;
\* a worker that has ended stays ended; the Producer's Count never changes
\* again and none of its values is put afterwards, and the Consumer takes
\* nothing afterwards.
C10_FatalNoRetry ==
    /\ [][(prod_pc \in {"put", "qsize"} /\ Unreachable
              /\ prod_pc' # prod_pc) =>
            /\ prod_pc' = "dead"
            /\ Count' = Count
            /\ putlog' = putlog]_vars
    /\ [][prod_pc = "dead" =>
            /\ prod_pc' = "dead"
            /\ prod_end' = prod_end
            /\ Count' = Count
            /\ putlog' = putlog]_vars
    /\ [][cons_pc = "dead" =>
            /\ cons_pc' = "dead"
            /\ cons_end' = cons_end
            /\ PrevItem' = PrevItem
            /\ getlog' = getlog]_vars

\* C10 witness: the Producer ended with BrokerUnreachable at the qsize call
\* that follows its second put; Count still names that value.
C10_Witness ==
    /\ prod_end = "BrokerUnreachable"
    /\ prod_pc = "dead"
    /\ Count = 1
    /\ Len(putlog) = 2

\* The Supervisor is in its wait loop.
InLoop == sup_pc \in {"join", "waiting"}

\* C11: The Supervisor blocks until interrupted.  Once the Producer has been
\* started (the Broker and the Consumer were started before it) main is in
\* its wait loop for as long as no signal is delivered; every wait can
\* return, and does; the loop is left only by OSSignalHandler's SystemExit
\* for a delivered signal; the statement after the loop is never reached.
C11_BlocksUntilInterrupted ==
    /\ []((startFirst = "Consumer" /\ nsig = 0
              /\ prod_pc \notin {"none", "new"})
            => (InLoop /\ sup_end = "none"))
    /\ [](sup_pc = "waiting" => ENABLED Main_JoinReturn)
    /\ (sup_pc = "waiting") ~> (sup_pc = "join")
    /\ [][(InLoop /\ ~InLoop') =>
            /\ pending \in Signals
            /\ pending \in handlers
            /\ sup_pc' = "unwind"
            /\ sup_exc' = "SystemExit"]_vars
    /\ [](sup_pc # "after_loop")

\* C11 witness: no signal was sent; the Broker has ended and both workers
\* with it, and main is still waiting in its loop.
C11_Witness ==
    /\ nsig = 0
    /\ sup_pc = "waiting"
    /\ broker = "dead"
    /\ prod_pc = "dead"
    /\ cons_pc = "dead"
    /\ Len(getlog) >= 1

\* C13: Producer sequence.  The k-th value the Producer passes to put is
\* k-1: the accepted puts are 0, 1, 2, ... and the value of the next call is
\* the number of accepted puts.  Count starts at 0, changes only by +1 in the
\* statement after the print that follows its accepted put, never goes down,
\* and every value below Count has been put exactly once.
C13_ProducerSequence ==
    /\ [](\A k \in 1..Len(putlog) : putlog[k] = k - 1)
    /\ []((Len(putlog) = 0) => (Count = 0))
    /\ []((prod_pc = "put") => (Count = Len(putlog)))
    /\ []((prod_pc \in {"qsize", "inc"}) => (Count = Len(putlog) - 1))
    /\ [](\A v \in 0..MaxCount :
            Occurrences(v, putlog) = (IF v < Len(putlog) THEN 1 ELSE 0))
    /\ [][(Count' # Count) =>
            /\ prod_pc = "inc"
            /\ Count' = Count + 1
            /\ Len(putlog) = Count + 1
            /\ putlog[Len(putlog)] = Count
            /\ putlog' = putlog]_vars

\* C13 witness: three puts were accepted and the counter has moved past the
\* third.
C13_Witness ==
    /\ putlog = <<0, 1, 2>>
    /\ Count = 3
    /\ prod_pc = "put"

\* The item the Consumer accepted last, -1 when there is none: at "get" every
\* item it received has passed the check, at "qsize" and "check" the last
\* one received is still to be checked.
LastAccepted ==
    LET n == IF cons_pc = "get" THEN Len(ConsumerVals)
                                ELSE Len(ConsumerVals) - 1
    IN  IF n >= 1 THEN ConsumerVals[n] ELSE -1

\* C14: Consumer cursor.  PrevItem is -1 until the first item is accepted and
\* then the value of the item accepted last.  It changes only in the step
\* after a get whose item passed the check Item - PrevItem = 1, which sets it
\* to that item, one more than before; a failed check or a failed call
\* leaves it as it was.
C14_ConsumerCursor ==
    /\ []((cons_pc \in ConsumerRunning) => (PrevItem = LastAccepted))
    /\ [](PrevItem = -1 \/ \E i \in 1..Len(ConsumerVals) :
                               ConsumerVals[i] = PrevItem)
    /\ [][(PrevItem' # PrevItem) =>
            /\ cons_pc = "check"
            /\ cons_pc' = "get"
            /\ Item - PrevItem = 1
            /\ PrevItem' = Item
            /\ PrevItem' = PrevItem + 1]_vars
    /\ [][(cons_pc = "check" /\ cons_pc' = "get") => (PrevItem' = Item)]_vars
    /\ [][(cons_pc' = "dead") => (PrevItem' = PrevItem)]_vars

\* C14 witness: two items were accepted, then a check failed and the cursor
\* stayed on the second.
C14_Witness ==
    /\ cons_end = "OrderingViolation"
    /\ PrevItem = 1
    /\ Item = 3
    /\ Len(ConsumerVals) = 3

\* A step in which the Producer's, or the Consumer's, size call returns.
ProducerSizeCall == prod_pc = "qsize" /\ prod_pc' = "inc"
ConsumerSizeCall == cons_pc = "qsize" /\ cons_pc' = "check"

\* C16: Size is observation only.  A size call returns the length the queue
\* has at the moment of the call and changes neither the queue, nor Count,
\* nor PrevItem (nor Item, nor what was put and got); the value it returned
\* decides nothing: the Producer goes on to its increment and the Consumer
\* to its check whatever was printed, and the check depends on Item and
\* PrevItem only.  The call is separate from the put or get before it, so
\* the other worker can act in between (the witness).
C16_SizeObservationOnly ==
    /\ [][ProducerSizeCall =>
            /\ psize' = Len(queue)
            /\ UNCHANGED <<queue, Count, PrevItem, Item, putlog, getlog,
                           broker, cons_pc, sup_pc>>]_vars
    /\ [][ConsumerSizeCall =>
            /\ csize' = Len(queue)
            /\ UNCHANGED <<queue, Count, PrevItem, Item, putlog, getlog,
                           broker, prod_pc, sup_pc>>]_vars
    /\ []((prod_pc = "inc") => ENABLED ProducerInc)
    /\ []((cons_pc = "check") => ENABLED ConsumerCheck)
    /\ [][(cons_pc = "check" /\ cons_pc' = "get") =>
            (Item - PrevItem = 1)]_vars
    /\ [][(cons_pc = "check" /\ cons_end' = "OrderingViolation") =>
            (Item - PrevItem # 1)]_vars

\* C16 witness: the Producer's put left at least one item in the queue, the
\* Consumer took it before the Producer asked for the size, and the size
\* printed with the put is 0.
C16_Witness ==
    /\ prod_pc = "inc"
    /\ psize = 0
    /\ Count = 1
    /\ getlog = <<<<"Consumer", 0>>, <<"Consumer", 1>>>>

\* Broker, Producer and Consumer are all alive (and the Producer has not
\* reached the bound of the model).
AllAlive ==
    /\ Reachable
    /\ prod_pc \in ProducerRunning
    /\ cons_pc \in ConsumerRunning
    /\ Count < MaxCount

\* C17: Deadlock freedom.  While Broker, Producer and Consumer are alive
\* some worker can step.  The Producer can always step, whatever the
\* Consumer is doing and whatever the queue holds, and each put it starts is
\* accepted (unless the process is ended first).  The Consumer cannot step
\* only when it is in get on an empty queue, and then the Producer can.
C17_DeadlockFreedom ==
    /\ [](AllAlive => ENABLED (Producer \/ Consumer))
    /\ [](AllAlive => ENABLED Producer)
    /\ []((AllAlive /\ prod_pc = "put") => ENABLED ProducerPut)
    /\ []((AllAlive /\ ~ENABLED Consumer) =>
            (cons_pc = "get" /\ queue = <<>>))
    /\ \A n \in 0..(MaxCount - 1) :
           (prod_pc = "put" /\ Count = n)
               ~> (Len(putlog) = n + 1 \/ prod_pc = "dead")

\* C17 witness: the Consumer is blocked in get on the empty queue after two
\* items went through, and the Producer is about to put the third.
C17_Witness ==
    /\ AllAlive
    /\ cons_pc = "get"
    /\ queue = <<>>
    /\ prod_pc = "put"
    /\ Count = 2
    /\ PrevItem = 1

\* The last value a get returned, -1 when no get has returned.
LastGot == IF Len(getlog) = 0 THEN -1 ELSE GetVals[Len(getlog)]

\* The queue holds a contiguous ascending run without repeats; its length is
\* completed puts minus completed gets; its largest element is the last
\* value put and its smallest is one more than the last value got.
QueueContent ==
    /\ \A i \in 1..(Len(queue) - 1) : queue[i + 1] = queue[i] + 1
    /\ Len(queue) = Len(putlog) - Len(getlog)
    /\ (queue # <<>>) =>
          /\ queue[Len(queue)] = putlog[Len(putlog)]
          /\ queue[1] = LastGot + 1

\* C19 as stated: the queue-content invariant, and PrevItem strictly less
\* than the Producer's counter.  It fails between a put and the increment
\* after it: the Consumer can accept the item just put while Count still has
\* that value.
C19_AsStated ==
    Reachable => (QueueContent /\ PrevItem < Count)

\* C19: Queue-content invariant, amended.  With the Broker alive and the one
\* Producer and one Consumer of the program, the queue holds a contiguous
\* ascending run, of length puts minus gets, from the last value got plus
\* one up to the last value put; consequently PrevItem is less than the
\* number of completed puts and at most Count (equal to it only between a
\* put and the increment that follows).
C19_QueueContent ==
    Reachable =>
        /\ QueueContent
        /\ PrevItem < Len(putlog)
        /\ PrevItem <= Count
        /\ (PrevItem = Count) => (prod_pc \in {"qsize", "inc"})

\* C19 witness: the Consumer has accepted the item the Producer has just put,
\* before the Producer's increment: the queue is empty and PrevItem equals
\* Count.
C19_Witness ==
    /\ Reachable
    /\ PrevItem = Count
    /\ Count = 1
    /\ prod_pc = "inc"
    /\ queue = <<>>

\* C20: No false alarm.  With the one Producer and the one Consumer of the
\* program on a FIFO queue, in every interleaving of put, get and size
\* calls the test ( Item - PrevItem ) != 1 is false each time the Consumer
\* reaches it, so no Consumer ends by an ordering violation, also when the
\* Broker is lost on the way.
C20_NoFalseAlarm ==
    /\ []((cons_pc = "check") => ~NotConsecutive(Item, PrevItem))
    /\ [](cons_end # "OrderingViolation")
    /\ [][(cons_pc = "check" /\ cons_pc' # cons_pc /\ sup_pc' # "exited")
            => (cons_pc' = "get")]_vars

\* C20 witness: the Consumer is at its test for the third time, with the
\* Producer one put ahead of it.
C20_Witness ==
    /\ cons_pc = "check"
    /\ Item = 2
    /\ PrevItem = 1
    /\ Reachable
    /\ prod_pc = "put"
    /\ Count = 3

\* A worker process has been started.
ProducerStarted == prod_pc \notin {"none", "new"}
ConsumerStarted == cons_pc \notin {"none", "new"}

\* C15: Startup ordering.  The workers are constructed only after the Broker
\* was started and the queue was made on it, and started after that; in the
\* program's order the Consumer is started before the Producer.  With the
\* two start statements in either order the Consumer accepts 0, 1, 2, ...
\* and never ends by an ordering violation.
C15_StartupOrdering ==
    /\ [][(sup_pc # "construct" /\ sup_pc' = "construct") =>
            (sup_pc = "make_queue" /\ Reachable)]_vars
    /\ [][(prod_pc = "none" /\ prod_pc' # "none") =>
            (sup_pc = "construct" /\ broker # "none")]_vars
    /\ [][(cons_pc = "none" /\ cons_pc' # "none") =>
            (sup_pc = "construct" /\ broker # "none")]_vars
    /\ []((ProducerStarted \/ ConsumerStarted) =>
            (prod_pc # "none" /\ cons_pc # "none"))
    /\ []((startFirst = "Consumer" /\ ProducerStarted) => ConsumerStarted)
    /\ []((startFirst = "Producer" /\ ConsumerStarted) => ProducerStarted)
    /\ [](cons_end # "OrderingViolation")
    /\ [](\A i \in 1..Len(ConsumerVals) : ConsumerVals[i] = i - 1)
    /\ []((cons_pc = "get") => (PrevItem = Len(ConsumerVals) - 1))

\* C15 witness: the Producer was started first, and the Consumer has
\* accepted three items.
C15_Witness ==
    /\ startFirst = "Producer"
    /\ Len(getlog) = 3
    /\ PrevItem = 2
    /\ cons_pc = "get"
    /\ Reachable

\* A step in which a worker's process ends.
ProducerDies == prod_pc # "dead" /\ prod_pc' = "dead"
ConsumerDies == cons_pc # "dead" /\ cons_pc' = "dead"

\* C18: Worker failure does not propagate.  The step in which a worker ends
\* by its own failure changes nothing of the other worker, of the queue or
\* of the Supervisor; the worker stays ended (nothing is caught or retried:
\* its variables and its part of the logs no longer change).  After a
\* Consumer death the Producer can still step and its puts still lengthen
\* the queue; after a Producer death with the Broker alive the Consumer at
\* get on the empty queue cannot step.  The Supervisor goes on to its wait
\* loop and stays in it, with no exception raised in it.
C18_FailureDoesNotPropagate ==
    /\ [][ConsumerDies =>
            /\ cons_end' \in {"OrderingViolation", "BrokerUnreachable"}
            /\ UNCHANGED <<prodVars, supVars, broker, queue, logVars>>]_vars
    /\ [][ProducerDies =>
            /\ prod_end' = "BrokerUnreachable"
            /\ UNCHANGED <<consVars, supVars, broker, queue, logVars>>]_vars
    /\ [][(cons_pc = "dead") =>
            (UNCHANGED consVars /\ ConsumerVals' = ConsumerVals)]_vars
    /\ [][(prod_pc = "dead") => UNCHANGED prodVars]_vars
    /\ []((cons_pc = "dead" /\ prod_pc \in ProducerRunning /\ Reachable
               /\ Count < MaxCount) => ENABLED Producer)
    /\ [][(cons_pc = "dead" /\ prod_pc = "put" /\ prod_pc' = "qsize") =>
            (Len(queue') = Len(queue) + 1)]_vars
    /\ []((prod_pc = "dead" /\ cons_pc = "get" /\ queue = <<>> /\ Reachable)
            => ~ENABLED Consumer)
    /\ []((prod_pc = "dead" \/ cons_pc = "dead") =>
            /\ sup_exc = "none"
            /\ sup_end = "none"
            /\ InLoop \/ (sup_pc = "start_producer" /\ ~ProducerStarted))
    /\ [](ProducerStarted => InLoop)

\* C18 witness: the Consumer ended by an ordering violation; the Producer
\* went on and has put all its items since, and main is in its loop.
C18_Witness ==
    /\ cons_end = "OrderingViolation"
    /\ prod_pc = "put"
    /\ Count = 3
    /\ Len(queue) >= 3
    /\ Reachable
    /\ InLoop

\* C18 second case: the Producer alone has ended, and the Consumer, having
\* accepted what was put, is blocked in get.
C18_ProducerDead ==
    /\ prod_end = "BrokerUnreachable"
    /\ Reachable
    /\ cons_pc = "get"
    /\ queue = <<>>
    /\ PrevItem = 1

\* The input of C12: six components in 0..255, packed start not greater
\* than packed end.
VerValid ==
    /\ \A i \in 1..6 : VersionNumbers[i] \in 0..255
    /\ FirstNum(VersionNumbers) <= SecondNum(VersionNumbers)

\* The number of versions in the range.
VerCount == SecondNum(VersionNumbers) - FirstNum(VersionNumbers) + 1

\* C12: Version-range enumeration.  For six components in 0..255 with packed
\* start <= packed end, the i-th version PrintFunction prints is the one
\* whose packed value is start + i - 1 (so: ascending, each once, none
\* outside the range), with components in 0..255; "Done" is printed exactly
\* when the version with the packed end has been printed, after end - start
\* + 1 versions, and nothing is printed after it.  "1.0.0 to 1.2.5" gives
\* 1.0.0 .. 1.0.255, 1.1.0 .. 1.1.255, 1.2.0 .. 1.2.5.
C12_VersionEnumeration ==
    /\ [](VerValid =>
            /\ FirstNum(VersionNumbers) =
                   PackedValue(SubSeq(VersionNumbers, 1, 3))
            /\ SecondNum(VersionNumbers) =
                   PackedValue(SubSeq(VersionNumbers, 4, 6))
            /\ Len(printed) <= VerCount
            /\ (ver_pc = "done") <=> (Len(printed) = VerCount)
            /\ (Len(printed) >= 1) =>
                  LET i == Len(printed)
                  IN  /\ PackedValue(printed[i]) =
                             FirstNum(VersionNumbers) + i - 1
                      /\ \A j \in 1..3 : printed[i][j] \in 0..255)
    /\ [][printed' # printed =>
            (ver_pc = "loop" /\ SubSeq(printed', 1, Len(printed)) = printed
               /\ Len(printed') = Len(printed) + 1)]_vars
    /\ []((ver_pc = "done") => ~ENABLED NextVer)
    /\ []((ver_pc = "done" /\ VersionNumbers = <<1, 0, 0, 1, 2, 5>>) =>
            /\ Len(printed) = 518
            /\ \A i \in 1..256 : printed[i] = <<1, 0, i - 1>>
            /\ \A i \in 257..512 : printed[i] = <<1, 1, i - 257>>
            /\ \A i \in 513..518 : printed[i] = <<1, 2, i - 513>>)

\* C12 witness: "1.0.0 to 1.2.5" has been enumerated and Done printed.
C12_Witness ==
    /\ VersionNumbers = <<1, 0, 0, 1, 2, 5>>
    /\ ver_pc = "done"
    /\ Len(printed) = 518
    /\ printed[518] = <<1, 2, 5>>

\* Some process of the pipeline has ended.
SomeProcessEnded ==
    \/ broker = "dead"
    \/ prod_pc = "dead"
    \/ cons_pc = "dead"
    \/ sup_pc = "exited"

WorkerAlive == prod_pc \in ProducerRunning \/ cons_pc \in ConsumerRunning

\* C22: Shutdown ordering.  The handler's SystemExit, raised inside the with
\* block, first unwinds that block: this step shuts the Broker down, drops
\* the queue's items undelivered, and leaves both workers as they are.  The
\* workers are terminated only in the step in which the Supervisor process
\* exits, with the Broker already down.  In between, a worker at a proxy
\* call cannot complete it: the call fails with BrokerUnreachable; and no
\* get returns any more.
C22_ShutdownOrdering ==
    /\ [][(sup_pc = "unwind" /\ sup_pc' # "unwind") =>
            /\ sup_pc' = "except"
            /\ withOpen => (broker' = "dead" /\ queue' = <<>>)
            /\ UNCHANGED <<prodVars, consVars, logVars>>]_vars
    /\ []((broker = "dead") => (sup_pc \in {"except", "atexit", "exited"}))
    /\ [][((prod_end # "Terminated" /\ prod_end' = "Terminated")
              \/ (cons_end # "Terminated" /\ cons_end' = "Terminated")) =>
            (sup_pc = "atexit" /\ sup_pc' = "exited" /\ broker # "alive")]_vars
    /\ []((Unreachable /\ prod_pc \in {"put", "qsize"}) =>
            (ENABLED ProducerFail /\ ~ENABLED ProducerPut
               /\ ~ENABLED ProducerQsize))
    /\ []((Unreachable /\ cons_pc \in {"get", "qsize"}) =>
            (ENABLED ConsumerFail /\ ~ENABLED ConsumerGet
               /\ ~ENABLED ConsumerQsize))
    /\ [][(prod_pc \in ProducerRunning /\ prod_pc' = "dead") =>
            (prod_end' = IF sup_pc' = "exited" THEN "Terminated"
                                             ELSE "BrokerUnreachable")]_vars
    /\ [][Unreachable => (getlog' = getlog /\ putlog' = putlog)]_vars

\* C22 witness: after a signal the with block was unwound with two items in
\* the queue; the Broker is down, the Producer's pending put has failed with
\* BrokerUnreachable, the Consumer is still running, and two of the three
\* items put were never delivered.
C22_Witness ==
    /\ signalled
    /\ sup_pc = "except"
    /\ sup_exc = "SystemExit"
    /\ broker = "dead"
    /\ prod_end = "BrokerUnreachable"
    /\ cons_pc = "get"
    /\ Len(putlog) = 3
    /\ Len(getlog) = 1

\* C23: Supervisor exit status.  What leaves OSSignalHandler is always the
\* SystemExit of sys.exit(0), whether or not its print raised.  Whatever is
\* raised in the try block of main is caught by an except clause and main
\* returns.  So once all three handlers are installed the Supervisor exits
\* with status 0 on every path: after a signal, after a failure to start
\* the Broker or a worker, and when the handler's SystemExit is raised in an
\* except clause, where nothing catches it.  The status is then 0 whether a
\* signal or a failure ended the Supervisor.
C23_ExitStatusZero ==
    /\ [][(pending \in handlers /\ pending' = "none") =>
            (sup_exc' = "SystemExit"
               /\ SupervisorExitCode(sup_exc') = 0)]_vars
    /\ []((sup_pc \in InTry \cup {"except"}) => (handlers = Signals))
    /\ []((sup_pc \in {"unwind", "except"}) =>
            (sup_exc \in {"SystemExit", "Exception"}))
    /\ [][(sup_pc = "except" /\ sup_pc' = "atexit") =>
            (sup_end' \in {"Returned", "SystemExit"}
               /\ SupervisorExitCode(sup_end') = 0)]_vars
    /\ []((sup_pc \in {"atexit", "exited"} /\ handlers = Signals) =>
            (SupervisorExitCode(sup_end) = 0))

\* C23 witness: no signal was sent; a start statement of main failed, the
\* exception was swallowed and the Supervisor has exited with status 0, as
\* it does after a signal.
C23_Witness ==
    /\ sup_pc = "exited"
    /\ nsig = 0
    /\ ~signalled
    /\ sup_end = "Returned"
    /\ SupervisorExitCode(sup_end) = 0
    /\ cons_end = "Terminated"
    /\ prod_pc = "new"

\* C23 second case: the handler's SystemExit was raised in an except clause
\* of main and has ended the process, with status 0.
C23_HandlerInExcept ==
    /\ sup_pc = "exited"
    /\ sup_end = "SystemExit"
    /\ handlers = Signals

\* The start, and the end, components are bytes.
StartInRange == \A i \in 1..3 : VersionNumbers[i] \in 0..255
EndInRange == \A i \in 4..6 : VersionNumbers[i] \in 0..255

\* (end - start) mod 2^24 + 1, on the packed values.
WrapCount ==
    ((PackedValue(SubSeq(VersionNumbers, 4, 6))
        - PackedValue(SubSeq(VersionNumbers, 1, 3))) % (2 ^ 24)) + 1

\* C24: Version-range termination.  For start components in 0..255: with
\* end components in 0..255 the i-th version printed is the one with packed
\* value (start + i - 1) mod 2^24, the loop stops exactly when
\* (end - start) mod 2^24 + 1 versions are printed, at the end version; so
\* a range whose start is after its end goes through 255.255.255 to 0.0.0
\* and on to its end, neither stopping early nor missing it, and the loop
\* does stop whenever that count is within MaxPrinted.  With an end
\* component above 255 the exit test is never true: Done is never printed
\* and the loop goes on printing up to any bound.
C24_VersionTermination ==
    /\ []((StartInRange /\ EndInRange) =>
            /\ Len(printed) <= WrapCount
            /\ (ver_pc = "done") <=> (Len(printed) = WrapCount)
            /\ (Len(printed) >= 1) =>
                  LET i == Len(printed)
                  IN  printed[i] = VersionOf(
                          PackedValue(SubSeq(VersionNumbers, 1, 3)) + i - 1)
            /\ (ver_pc = "done") =>
                  (printed[Len(printed)] = SubSeq(VersionNumbers, 4, 6)))
    /\ (StartInRange /\ EndInRange /\ WrapCount <= MaxPrinted)
           ~> (ver_pc = "done")
    /\ []((StartInRange /\ ~EndInRange) => (ver_pc # "done"))
    /\ []((StartInRange /\ ~EndInRange /\ ver_pc = "loop"
               /\ Len(printed) < MaxPrinted) => ENABLED PrintFunction_Loop)
    /\ (StartInRange /\ ~EndInRange)
           ~> (ver_pc = "loop" /\ Len(printed) = MaxPrinted)

\* C24 witness: "255.255.255 to 0.0.2", a range whose start is after its
\* end, has stopped at 0.0.2 after four versions, having wrapped to 0.0.0.
C24_Witness ==
    /\ VersionNumbers = <<255, 255, 255, 0, 0, 2>>
    /\ ver_pc = "done"
    /\ printed = <<<<255, 255, 255>>, <<0, 0, 0>>, <<0, 0, 1>>, <<0, 0, 2>>>>
    /\ WrapCount = 4

\* C24 second case: "0.0.0 to 0.0.256" is still being enumerated after
\* MaxPrinted versions, past 0.1.0.
C24_NeverMatched ==
    /\ VersionNumbers = <<0, 0, 0, 0, 0, 256>>
    /\ ver_pc = "loop"
    /\ Len(printed) = MaxPrinted
    /\ printed[258] = <<0, 1, 1>>

====
